---- MODULE Spec2Model ----
(***************************************************************************)
(* A model of the catalog service of src/main.py: the product routes       *)
(* (list_products with its lazy seeding, create_product, get_product),     *)
(* the record normalizer (_to_id_str, _format_product) and the checkout    *)
(* stub.  The document store (database.py) and the ProductSchema model     *)
(* (schemas.py) are imported by main.py; they are modelled from the        *)
(* contract the specification gives for them.                              *)
(*                                                                         *)
(* Representation of Python values:                                        *)
(*   - a dict is a function whose domain is its set of keys;               *)
(*   - an Optional[str] is None (the empty tuple) or Some(s) == <<s>>;     *)
(*   - a str built or parsed by the code (an id) is a tuple of characters; *)
(*   - a native identifier (ObjectId) is the record [oid |-> n];           *)
(*   - a checkout price is a float that is a whole number of eighths       *)
(*     (exactly representable in binary), given as that number; a          *)
(*     checkout total is a number of hundredths.                           *)
(***************************************************************************)
EXTENDS Integers, Sequences, FiniteSets, TLC

VARIABLES
    dbUp,         \* db is not None (main.py:8), fixed for the life of the process
    hasObjectId,  \* bson.ObjectId could be imported (main.py:11-14)
    product,      \* the "product" collection, in insertion order
    pc,           \* pc[p]: where worker p stands in the handler it runs
    frame,        \* frame[p]: the local variables of the handler p runs
    result,       \* result[p]: the response of the handler p has finished
    calls,        \* requests accepted so far
    input         \* the argument of the pure function under check

vars == <<dbUp, hasObjectId, product, pc, frame, result, calls, input>>

\* ------------------------------------------------------------- bounds

NumProcs == 2
MaxCalls == 2
OidLen == 2
MaxItems == 2

Procs == 1..NumProcs

\* ------------------------------------------------------------- values

None == <<>>
Some(s) == <<s>>

NoFrame == [op |-> "none"]
NoResult == [op |-> "none"]

HexDigits == <<"0", "1", "2", "3", "4", "5", "6", "7",
               "8", "9", "a", "b", "c", "d", "e", "f">>

RECURSIVE Pow16(_)
Pow16(k) == IF k = 0 THEN 1 ELSE 16 * Pow16(k - 1)

\* str(ObjectId): OidLen lowercase hexadecimal characters, most significant first.
IdStr(native) ==
    [i \in 1..OidLen |-> HexDigits[((native.oid \div Pow16(OidLen - i)) % 16) + 1]]

IsHex(c) == \E v \in 1..16 : HexDigits[v] = c
HexVal(c) == (CHOOSE v \in 1..16 : HexDigits[v] = c) - 1

RECURSIVE HexNum(_)
HexNum(s) == IF Len(s) = 0 THEN 0
             ELSE 16 * HexNum(SubSeq(s, 1, Len(s) - 1)) + HexVal(s[Len(s)])

\* ObjectId(s): raises InvalidId unless s has the native format.
ObjectIdValid(s) == Len(s) = OidLen /\ \A i \in 1..Len(s) : IsHex(s[i])
ObjectId(s) == [oid |-> HexNum(s)]

\* ------------------------------------------------------------- the store

\* get_documents("product")
get_documents == product

\* create_document("product", data): the collection after the insert
InsertedOid(coll) == [oid |-> Len(coll) + 1]
create_document(coll, data) == Append(coll, data @@ ("_id" :> InsertedOid(coll)))
\* ... and the id it returns
inserted_id_of(coll) == IdStr(InsertedOid(coll))

\* db["product"].find_one({"_id": native}): None or the document
find_one_by_id(coll, native) ==
    IF \E i \in 1..Len(coll) : coll[i]["_id"] = native
    THEN Some(coll[CHOOSE i \in 1..Len(coll) : coll[i]["_id"] = native])
    ELSE None

\* db["product"].find_one(sort=[("_id", -1)]): the document with the greatest _id
find_one_latest(coll) ==
    IF Len(coll) = 0 THEN None
    ELSE Some(coll[CHOOSE i \in 1..Len(coll) :
                     \A j \in 1..Len(coll) : coll[j]["_id"].oid <= coll[i]["_id"].oid])

\* ProductSchema(...).model_dump()
ProductSchema(title, description, price, category, in_stock) ==
    [title |-> title, description |-> description, price |-> price,
     category |-> category, in_stock |-> in_stock]

\* ------------------------------------------------------------- helpers

\* str(None), what str() gives for a missing identifier
NoneStr == <<"N", "o", "n", "e">>

\* _to_id_str with the "is not None" guard dropped: str(d.pop("_id", None))
_to_id_str_unguarded(doc) ==
    [k \in (DOMAIN doc \ {"_id"}) \cup {"id"} |->
        IF k = "id"
        THEN (IF "_id" \in DOMAIN doc THEN IdStr(doc["_id"]) ELSE NoneStr)
        ELSE doc[k]]

\* _to_id_str(doc): a falsy doc is returned as it is; otherwise the key _id,
\* when present, is replaced by the key id holding str(_id).
_to_id_str(doc) ==
    IF DOMAIN doc = {} THEN doc
    ELSE IF "_id" \in DOMAIN doc
         THEN [k \in (DOMAIN doc \ {"_id"}) \cup {"id"} |->
                  IF k = "id" THEN IdStr(doc["_id"]) ELSE doc[k]]
         ELSE doc

\* bool(value) is False, for a value of the field k
Falsy(k, x) ==
    CASE k \in {"title", "category"} -> x = ""
      [] k = "price" -> x = 0
      [] k \in {"description", "image"} -> (x = None \/ x = Some(""))
      [] k = "in_stock" -> x = FALSE
      [] OTHER -> FALSE

\* d[k] = d.get(k) or v: the default also replaces a falsy value
SetDefaultFalsy(d, k, v) ==
    IF k \in DOMAIN d /\ ~Falsy(k, d[k]) THEN d
    ELSE [j \in DOMAIN d \cup {k} |-> IF j = k THEN v ELSE d[j]]

\* d.setdefault(k, v)
SetDefault(d, k, v) == IF k \in DOMAIN d THEN d ELSE d @@ (k :> v)

ValidationError == [ok |-> FALSE, error |-> "ValidationError"]

\* ProductOut(**d): id, title, price and category are required, description,
\* image and in_stock have defaults, other keys are ignored.
ProductOut(d) ==
    IF {"id", "title", "price", "category"} \subseteq DOMAIN d
    THEN [ok |-> TRUE,
          value |-> [id |-> d["id"], title |-> d["title"], price |-> d["price"],
                     category |-> d["category"],
                     description |-> IF "description" \in DOMAIN d
                                     THEN d["description"] ELSE None,
                     image |-> IF "image" \in DOMAIN d THEN d["image"] ELSE None,
                     in_stock |-> IF "in_stock" \in DOMAIN d
                                  THEN d["in_stock"] ELSE TRUE]]
    ELSE ValidationError

\* _format_product(doc)
_format_product(doc) ==
    LET d0 == _to_id_str(doc)
        d1 == SetDefault(d0, "title", "Untitled")
        d2 == SetDefault(d1, "price", 0)
        d3 == SetDefault(d2, "category", "General")
        d4 == SetDefault(d3, "description", None)
        d5 == SetDefault(d4, "image", None)
        d6 == SetDefault(d5, "in_stock", TRUE)
    IN  ProductOut(d6)

\* [_format_product(doc) for doc in docs]: the list, or the first exception
FormatAll(docs) ==
    IF \A i \in 1..Len(docs) : _format_product(docs[i]).ok
    THEN [ok |-> TRUE, value |-> [i \in 1..Len(docs) |-> _format_product(docs[i]).value]]
    ELSE ValidationError

\* ------------------------------------------------------------- seed data

seed ==
    << ProductSchema("Carbon Wallet",
                     Some("Slim carbon fiber wallet with RFID blocking."),
                     89, "Accessories", TRUE)
         @@ ("image" :> Some("https://images.unsplash.com/photo-1585401586477-2a671e1cae4e?ixlib=rb-4.1.0&w=1600&auto=format&fit=crop&q=80")),
       ProductSchema("Monochrome Sneakers",
                     Some("Minimalist sneakers with premium materials."),
                     159, "Footwear", TRUE)
         @@ ("image" :> Some("https://images.unsplash.com/photo-1519741497674-611481863552?q=80&w=1600&auto=format&fit=crop")),
       ProductSchema("Minimal Watch",
                     Some("Matte black timepiece with sapphire glass."),
                     129, "Watches", TRUE)
         @@ ("image" :> Some("https://images.unsplash.com/photo-1524805444758-089113d48a6d?q=80&w=1600&auto=format&fit=crop")) >>

\* ------------------------------------------------------------- responses

Respond(op, arg, status, body) ==
    [op |-> op, arg |-> arg, status |-> status, body |-> body]

\* A handler that returns _format_product's value answers `status`; an exception
\* that escapes the handler is answered 500.
RespondFormatted(op, arg, status, fmt) ==
    IF fmt.ok THEN Respond(op, arg, status, fmt.value)
    ELSE Respond(op, arg, 500, fmt.error)

Accept(p) ==
    /\ pc[p] = "idle"
    /\ calls < MaxCalls
    /\ calls' = calls + 1

Finish(p, response) ==
    /\ pc' = [pc EXCEPT ![p] = "done"]
    /\ result' = [result EXCEPT ![p] = response]

\* ------------------------------------------------------------- list_products

\* docs = get_documents("product"); the branch on len(docs) == 0
ListReadStore(p) ==
    LET docs == get_documents
    IN  IF Len(docs) = 0
        THEN /\ pc' = [pc EXCEPT ![p] = "list_seed"]
             /\ frame' = [frame EXCEPT ![p] = [op |-> "list", i |-> 1]]
             /\ UNCHANGED result
        ELSE /\ Finish(p, RespondFormatted("list", <<>>, 200, FormatAll(docs)))
             /\ frame' = [frame EXCEPT ![p] = [op |-> "list", i |-> 0]]

\* list_products without its "if db is None" guard
ListReadUnguarded(p) ==
    /\ Accept(p)
    /\ ListReadStore(p)
    /\ UNCHANGED <<dbUp, hasObjectId, product, input>>

\* list_products, up to and including its first read of the collection
ListRead(p) ==
    /\ Accept(p)
    /\ IF ~dbUp
       THEN /\ Finish(p, Respond("list", <<>>, 200, <<>>))
            /\ frame' = [frame EXCEPT ![p] = [op |-> "list", i |-> 0]]
       ELSE ListReadStore(p)
    /\ UNCHANGED <<dbUp, hasObjectId, product, input>>

SeedAdvance(p) ==
    IF frame[p].i < Len(seed)
    THEN /\ frame' = [frame EXCEPT ![p].i = @ + 1]
         /\ UNCHANGED pc
    ELSE /\ pc' = [pc EXCEPT ![p] = "list_reread"]
         /\ UNCHANGED frame

\* a seeding pass whose first write replaces the collection instead of adding to it
ListSeedReplace(p) ==
    /\ pc[p] = "list_seed"
    /\ product' = create_document(IF frame[p].i = 1 THEN <<>> ELSE product,
                                  seed[frame[p].i])
    /\ SeedAdvance(p)
    /\ UNCHANGED <<dbUp, hasObjectId, result, calls, input>>

\* one turn of "for s in seed: create_document("product", s)"
ListSeed(p) ==
    /\ pc[p] = "list_seed"
    /\ product' = create_document(product, seed[frame[p].i])
    /\ SeedAdvance(p)
    /\ UNCHANGED <<dbUp, hasObjectId, result, calls, input>>

\* docs = get_documents("product") after the seeding, and the return
ListReread(p) ==
    /\ pc[p] = "list_reread"
    /\ Finish(p, RespondFormatted("list", <<>>, 200, FormatAll(get_documents)))
    /\ UNCHANGED <<dbUp, hasObjectId, product, frame, calls, input>>

\* ------------------------------------------------------------- create_product

\* create_product up to and including create_document
CreateInsert(p, prod) ==
    /\ Accept(p)
    /\ IF ~dbUp
       THEN /\ Finish(p, Respond("create", prod, 503, "Database not available"))
            /\ frame' = [frame EXCEPT ![p] = [op |-> "create", inserted_id |-> None]]
            /\ UNCHANGED product
       ELSE /\ product' = create_document(product,
                              ProductSchema(prod.title, prod.description, prod.price,
                                            prod.category, prod.in_stock)
                                @@ ("image" :> prod.image))
            /\ frame' = [frame EXCEPT ![p] =
                            [op |-> "create", product |-> prod,
                             inserted_id |-> inserted_id_of(product)]]
            /\ pc' = [pc EXCEPT ![p] = "create_find"]
            /\ UNCHANGED result
    /\ UNCHANGED <<dbUp, hasObjectId, input>>

\* the read after the insert, and the return
CreateFind(p) ==
    /\ pc[p] = "create_find"
    /\ LET doc == IF hasObjectId
                  THEN find_one_by_id(product, ObjectId(frame[p].inserted_id))
                  ELSE find_one_latest(product)
       IN  Finish(p, IF doc = None
                     THEN Respond("create", frame[p].product, 500, "AttributeError")
                     ELSE RespondFormatted("create", frame[p].product, 201,
                                           _format_product(doc[1])))
    /\ UNCHANGED <<dbUp, hasObjectId, product, frame, calls, input>>

\* ------------------------------------------------------------- get_product

GetRespond(p, product_id, status, body) ==
    /\ Finish(p, Respond("get", product_id, status, body))
    /\ frame' = [frame EXCEPT ![p] = [op |-> "get"]]
    /\ UNCHANGED <<dbUp, hasObjectId, product, input>>

\* get_product without the try/except around the lookup: InvalidId escapes
GetProductNoTry(p, product_id) ==
    /\ Accept(p)
    /\ IF ~dbUp
       THEN GetRespond(p, product_id, 503, "Database not available")
       ELSE IF hasObjectId /\ ~ObjectIdValid(product_id)
       THEN GetRespond(p, product_id, 500, "InvalidId")
       ELSE LET doc == IF hasObjectId
                       THEN find_one_by_id(product, ObjectId(product_id))
                       ELSE None
            IN  IF doc = None
                THEN GetRespond(p, product_id, 404, "Product not found")
                ELSE /\ Finish(p, RespondFormatted("get", product_id, 200,
                                                   _format_product(doc[1])))
                     /\ frame' = [frame EXCEPT ![p] = [op |-> "get"]]
                     /\ UNCHANGED <<dbUp, hasObjectId, product, input>>

GetProduct(p, product_id) ==
    /\ Accept(p)
    /\ IF ~dbUp
       THEN GetRespond(p, product_id, 503, "Database not available")
       ELSE LET doc == IF hasObjectId /\ ObjectIdValid(product_id)
                       THEN find_one_by_id(product, ObjectId(product_id))
                       ELSE None
            IN  IF doc = None
                THEN GetRespond(p, product_id, 404, "Product not found")
                ELSE /\ Finish(p, RespondFormatted("get", product_id, 200,
                                                   _format_product(doc[1])))
                     /\ frame' = [frame EXCEPT ![p] = [op |-> "get"]]
                     /\ UNCHANGED <<dbUp, hasObjectId, product, input>>

\* ------------------------------------------------------------- checkout

\* sum(i.price * i.qty for i in req.items), in eighths
RECURSIVE checkout_sum(_)
checkout_sum(items) ==
    IF Len(items) = 0 THEN 0
    ELSE checkout_sum(SubSeq(items, 1, Len(items) - 1))
           + items[Len(items)].price * items[Len(items)].qty

\* round(total, 2) of a float that is `eighths`/8: the nearest number of
\* hundredths, a tie (x.xx5 exactly) going to the even one
round2(eighths) ==
    LET n == eighths * 25
        q == n \div 2
    IN  IF n % 2 = 0 THEN q
        ELSE IF q % 2 = 0 THEN q ELSE q + 1

\* the total with the quantity left out of the product
checkout_total_no_qty(items) ==
    LET RECURSIVE S(_)
        S(its) == IF Len(its) = 0 THEN 0
                  ELSE S(SubSeq(its, 1, Len(its) - 1)) + its[Len(its)].price
    IN  round2(S(items))

checkout_total(items) == round2(checkout_sum(items))

Checkout(p, items) ==
    /\ Accept(p)
    /\ Finish(p, Respond("checkout", items, 200,
                         [status |-> "ok", message |-> "Checkout session created",
                          total |-> checkout_total(items), currency |-> "USD",
                          redirect_url |-> None]))
    /\ frame' = [frame EXCEPT ![p] = [op |-> "checkout"]]
    /\ UNCHANGED <<dbUp, hasObjectId, product, input>>

\* ------------------------------------------------------------- the server

\* the response is sent and the worker takes the next request
Return(p) ==
    /\ pc[p] = "done"
    /\ pc' = [pc EXCEPT ![p] = "idle"]
    /\ frame' = [frame EXCEPT ![p] = NoFrame]
    /\ result' = [result EXCEPT ![p] = NoResult]
    /\ UNCHANGED <<dbUp, hasObjectId, product, calls, input>>

\* ------------------------------------------------------------- requests

\* bodies of POST /products (ProductIn)
ProductIns ==
    { [title |-> "Desk Lamp", price |-> 25, category |-> "Home",
       description |-> Some("Warm light."), image |-> None, in_stock |-> TRUE],
      [title |-> "", price |-> 0, category |-> "",
       description |-> None, image |-> Some(""), in_stock |-> FALSE] }

\* path parameters of GET /products/{product_id}: the id of the first record the
\* store creates, a well-formed id the store never assigns here, a string that
\* is too short and one that is not hexadecimal
ProductIds ==
    { IdStr([oid |-> 1]),
      IdStr([oid |-> Pow16(OidLen) - 1]),
      Tail(IdStr([oid |-> 1])),
      [i \in 1..OidLen |-> "z"] }

CheckoutItem(price, qty) == [id |-> "sku", title |-> "item", price |-> price, qty |-> qty]

\* prices in eighths: -0.125, 0.125, 0.375, 89 and 159
CheckoutPrices == {-1, 1, 3, 712, 1272}
CheckoutQtys == {0, 1, 2}
CheckoutItems == {CheckoutItem(pr, q) : pr \in CheckoutPrices, q \in CheckoutQtys}
CheckoutRequests == UNION {[1..n -> CheckoutItems] : n \in 0..MaxItems}

ExampleItems == <<CheckoutItem(712, 1), CheckoutItem(1272, 2)>>

\* the checkout bodies the server is sent while it serves the catalog
ServerCheckouts == {ExampleItems, <<CheckoutItem(-1, 0)>>}

\* raw documents: each optional key is absent (0) or holds one of two values,
\* the first of them falsy
OptionalKeys == {"title", "price", "category", "description", "image", "in_stock"}

FieldValue(k, c) ==
    CASE k = "title" -> IF c = 1 THEN "" ELSE "Desk Lamp"
      [] k = "price" -> IF c = 1 THEN 0 ELSE 25
      [] k = "category" -> IF c = 1 THEN "" ELSE "Home"
      [] k = "description" -> IF c = 1 THEN None ELSE Some("")
      [] k = "image" -> IF c = 1 THEN None ELSE Some("https://example.com/lamp.png")
      [] k = "in_stock" -> (c # 1)

RawDoc(c) ==
    [k \in {j \in OptionalKeys : c[j] > 0} \cup {"_id"} |->
        IF k = "_id" THEN [oid |-> 1] ELSE FieldValue(k, c[k])]

\* ------------------------------------------------------------- specifications

InitServer ==
    /\ dbUp \in BOOLEAN
    /\ hasObjectId \in BOOLEAN
    /\ product = <<>>
    /\ pc = [p \in Procs |-> "idle"]
    /\ frame = [p \in Procs |-> NoFrame]
    /\ result = [p \in Procs |-> NoResult]
    /\ calls = 0

Init ==
    /\ InitServer
    /\ input = <<>>

Next ==
    \E p \in Procs :
        \/ ListRead(p)
        \/ ListSeed(p)
        \/ ListReread(p)
        \/ \E prod \in ProductIns : CreateInsert(p, prod)
        \/ CreateFind(p)
        \/ \E product_id \in ProductIds : GetProduct(p, product_id)
        \/ \E items \in ServerCheckouts : Checkout(p, items)
        \/ Return(p)

Spec == Init /\ [][Next]_vars

\* The record normalizer alone: one raw document, normalized and then
\* normalized again.
InitFormat ==
    /\ InitServer
    /\ \E c \in [OptionalKeys -> 0..2] : input = RawDoc(c)

Normalize(p) ==
    /\ Accept(p)
    /\ result[p] = NoResult
    /\ Finish(p, [op |-> "normalize", arg |-> input, body |-> _format_product(input)])
    /\ frame' = [frame EXCEPT ![p] = [op |-> "normalize"]]
    /\ UNCHANGED <<dbUp, hasObjectId, product, input>>

Renormalize(p) ==
    /\ pc[p] = "done"
    /\ result[p].op = "normalize"
    /\ result[p].body.ok
    /\ result' = [result EXCEPT ![p] =
                    [op |-> "renormalize", arg |-> result[p].body.value,
                     body |-> _format_product(result[p].body.value)]]
    /\ UNCHANGED <<dbUp, hasObjectId, product, pc, frame, calls, input>>

NextFormat == \E p \in Procs : Normalize(p) \/ Renormalize(p)

SpecFormat == InitFormat /\ [][NextFormat]_vars

\* The checkout calculator alone, on every request of the bounded set.
InitCheckout ==
    /\ InitServer
    /\ input \in CheckoutRequests

NextCheckout == \E p \in Procs : Checkout(p, input)

SpecCheckout == InitCheckout /\ [][NextCheckout]_vars

\* ------------------------------------------------------------- properties

Quiescent == \A p \in Procs : pc[p] \in {"idle", "done"}

SeedTitles == {seed[i].title : i \in 1..Len(seed)}
IsSeedRecord(doc) == doc.title \in SeedTitles

\* C1: when every call has finished and the collection holds seed records
\* only (list_products calls alone wrote to an initially empty collection),
\* it holds exactly the 3 seed records, whatever the number of calls and
\* their interleaving.
C1_ExactlyThreeSeeded ==
    (/\ dbUp
     /\ Quiescent
     /\ Len(product) > 0
     /\ \A i \in 1..Len(product) : IsSeedRecord(product[i]))
    => Len(product) = Len(seed)

\* C2: a seeding pass starts writing only on an empty collection: once the
\* collection holds a record (a created one or a seeded one) no further
\* seeding pass writes to it, so that at most one pass ever writes.
C2_NoSeedingOnceNonEmpty ==
    [][\A p \in Procs :
          (/\ pc[p] = "list_seed"
           /\ frame[p].i = 1
           /\ pc'[p] = "list_seed"
           /\ frame'[p].i = 2)
          => Len(product) = 0]_vars

\* C3: with the store unavailable, list_products answers the empty sequence
\* without reading, seeding or writing, create_product answers 503 without
\* creating a record, and the store stays as it was.
C3_UnavailableStore ==
    ~dbUp =>
      /\ product = <<>>
      /\ \A p \in Procs :
           /\ pc[p] \in {"idle", "done"}
           /\ (pc[p] = "done" /\ result[p].op = "list")
                => (result[p].status = 200 /\ result[p].body = <<>>)
           /\ (pc[p] = "done" /\ result[p].op = "create")
                => result[p].status = 503

C3_Witness ==
    /\ ~dbUp
    /\ \E p, q \in Procs :
         /\ pc[p] = "done" /\ result[p].op = "list"
         /\ pc[q] = "done" /\ result[q].op = "create"

Default(k) ==
    CASE k = "title" -> "Untitled"
      [] k = "price" -> 0
      [] k = "category" -> "General"
      [] k = "description" -> None
      [] k = "image" -> None
      [] k = "in_stock" -> TRUE

\* C4: the normalizer returns a Product with all six optional fields; a field
\* whose key the document has keeps the document's value (an empty string, a
\* zero, a null or a false included) and a field whose key it lacks gets the
\* default.
C4_DefaultsIffAbsent ==
    \A p \in Procs :
      (pc[p] = "done" /\ result[p].op = "normalize") =>
        /\ result[p].body.ok
        /\ OptionalKeys \subseteq DOMAIN result[p].body.value
        /\ result[p].body.value.id = IdStr(input["_id"])
        /\ \A k \in OptionalKeys :
             result[p].body.value[k] =
               IF k \in DOMAIN input THEN input[k] ELSE Default(k)

C4_Witness ==
    \E p \in Procs :
      /\ pc[p] = "done" /\ result[p].op = "normalize"
      /\ DOMAIN input = {"_id", "category", "in_stock", "image"}
      /\ input.category = "" /\ input.in_stock = FALSE /\ input.image = None
      /\ result[p].body.value.title = "Untitled"
      /\ result[p].body.value.in_stock = FALSE

\* C5: normalizing the field mapping of a normalized record gives that record
\* again.
C5_NormalizeIdempotent ==
    \A p \in Procs :
      (pc[p] = "done" /\ result[p].op = "renormalize") =>
        /\ result[p].body.ok
        /\ result[p].body.value = result[p].arg

C5_Witness ==
    \E p \in Procs :
      /\ pc[p] = "done" /\ result[p].op = "renormalize"
      /\ DOMAIN input = {"_id", "price"}
      /\ result[p].body.ok
      /\ result[p].body.value.id = IdStr([oid |-> 1])

\* product_id does not have the native format, or has it and is the id of no
\* record of the collection
NoSuchRecord(product_id, coll) ==
    \/ ~ObjectIdValid(product_id)
    \/ \A i \in 1..Len(coll) : IdStr(coll[i]["_id"]) # product_id

GetStep(p) == pc[p] = "idle" /\ pc'[p] = "done" /\ result'[p].op = "get"

RECURSIVE ExactSum(_, _)
ExactSum(items, i) ==
    IF i > Len(items) THEN 0
    ELSE items[i].price * items[i].qty + ExactSum(items, i + 1)

\* `hundredths` is `eighths`/8 rounded to 2 decimals: no number of hundredths
\* is nearer, and of two equally near ones it is the even one
IsRounded2(hundredths, eighths) ==
    LET diff == 100 * eighths - 8 * hundredths
    IN  /\ diff \in -4..4
        /\ diff \in {-4, 4} => hundredths % 2 = 0

\* C7: checkout answers the sum of price * qty rounded to 2 decimals, the
\* currency "USD" and a null redirect_url, for every sequence of items (the
\* empty one included); for [{89, 1}, {159, 2}] the total is 407.
C7_CheckoutTotal ==
    \A p \in Procs :
      (pc[p] = "done" /\ result[p].op = "checkout") =>
        /\ result[p].status = 200
        /\ result[p].body.currency = "USD"
        /\ result[p].body.redirect_url = None
        /\ IsRounded2(result[p].body.total, ExactSum(result[p].arg, 1))
        /\ result[p].arg = <<>> => result[p].body.total = 0
        /\ result[p].arg = ExampleItems => result[p].body.total = 40700

C7_Witness ==
    \E p, q \in Procs :
      /\ pc[p] = "done" /\ result[p].op = "checkout"
      /\ result[p].arg = ExampleItems
      /\ result[p].body.total = 40700
      /\ pc[q] = "done" /\ result[q].op = "checkout"
      /\ result[q].body.currency = "USD"

InvalidItem(item) == item.price < 0 \/ item.qty < 1

\* C8: checkout answers 422, and no total, whenever an item has a negative
\* price or a qty below 1.
C8_InvalidItemsRejected ==
    \A p \in Procs :
      (/\ pc[p] = "done"
       /\ result[p].op = "checkout"
       /\ \E i \in 1..Len(result[p].arg) : InvalidItem(result[p].arg[i]))
      => result[p].status = 422

\* C9: on an available store create_product answers the record its own call
\* inserted: the id the store gave this insert and the submitted fields.
C9_CreateReturnsOwnRecord ==
    \A p \in Procs :
      (dbUp /\ pc[p] = "done" /\ result[p].op = "create") =>
        /\ result[p].status = 201
        /\ result[p].body.id = frame[p].inserted_id
        /\ \A k \in OptionalKeys : result[p].body[k] = frame[p].product[k]

UniqueIds ==
    \A i, j \in 1..Len(product) : product[i]["_id"] = product[j]["_id"] => i = j

Grows ==
    /\ Len(product') >= Len(product)
    /\ \A i \in 1..Len(product) : product'[i] = product[i]

\* C10: the collection only grows: a record once present stays, with its id
\* and its field values, and no two records share an id.
C10_CollectionOnlyGrows == []UniqueIds /\ [][Grows]_vars

C10_Witness ==
    /\ Len(product) > Len(seed)
    /\ \E i, j \in 1..Len(product) :
         IsSeedRecord(product[i]) /\ ~IsSeedRecord(product[j])

====
